---------------------------- MODULE Spec2Model ----------------------------
(***************************************************************************)
(* Model of the YouTube video summarizer: the URL identifier extractor     *)
(* (src/utils/general.py), the summarization client (src/utils/gemini.py), *)
(* the HTTP handler (src/app.py) and the command-line entry point (cli.py).*)
(*                                                                         *)
(* Python strings are sequences of one-character strings, so that regular  *)
(* expression search works on characters.  Messages built with f-strings   *)
(* are sequences of parts.                                                 *)
(***************************************************************************)
EXTENDS Integers, Sequences, FiniteSets, TLC

VARIABLES
  surface,      \* which entry point runs: "call", "http", "cli", "stream"
  video_url,    \* the input string
  env_key,      \* os.environ.get("ARMY_ACCESS_KEY")
  pc,           \* position of the running handler
  result,       \* outcome of a direct extract_video_id call
  video_id,     \* local of the handler
  video_info,   \* local of the handler
  transcript,   \* local of the handler
  summary,      \* local of the handler
  calls,        \* stages invoked so far, in order
  net,          \* network requests issued so far, in order
  response,     \* HTTP batch responses produced
  exit_code,    \* CLI process exit status ("running" before termination)
  stdout,       \* CLI standard output
  log,          \* CLI logger records
  events,       \* streaming events emitted so far
  failures,     \* stage calls that raised, with the exception raised
  api_response, \* what youtube.videos().list(...).execute() returned
  users,        \* the user table: users[i] is the row with id i
  session,      \* per worker: the exchange_code_for_tokens call in progress
  returned,     \* the last completed exchange_code_for_tokens call
  started       \* number of exchange_code_for_tokens calls begun

vars == <<surface, video_url, env_key, pc, result, video_id, video_info,
          transcript, summary, calls, net, response, exit_code, stdout, log,
          events, failures, api_response, users, session, returned, started>>

\* the state of the OAuth variant
auth_state == <<api_response, users, session, returned, started>>

----------------------------------------------------------------------------
(* Bounds *)

\* longest URL, in segments, that the extractor is tried on
MaxSegs == 4

----------------------------------------------------------------------------
(* Characters and strings *)

\* a quantifier one short of the identifier's length
IdLenShort == 11 - 1
\* the regex quantifier {11}
IdLen == 11

\* the regex class [a-zA-Z0-9_-]
IdChars ==
  {"a", "b", "c", "d", "e", "f", "g", "h", "i", "j", "k", "l", "m", "n", "o",
   "p", "q", "r", "s", "t", "u", "v", "w", "x", "y", "z", "A", "B", "C", "D",
   "E", "F", "G", "H", "I", "J", "K", "L", "M", "N", "O", "P", "Q", "R", "S",
   "T", "U", "V", "W", "X", "Y", "Z", "0", "1", "2", "3", "4", "5", "6", "7",
   "8", "9", "_", "-"}

\* youtube\.com\/watch\?v=
WatchPrefix == <<"y", "o", "u", "t", "u", "b", "e", ".", "c", "o", "m", "/", "w", "a", "t", "c", "h", "?", "v", "=">>
\* youtu\.be\/
ShortPrefix == <<"y", "o", "u", "t", "u", ".", "b", "e", "/">>
\* youtube\.com\/embed\/
EmbedPrefix == <<"y", "o", "u", "t", "u", "b", "e", ".", "c", "o", "m", "/", "e", "m", "b", "e", "d", "/">>

\* the list of patterns, in the order the loop tries them
patterns_embed_first == <<EmbedPrefix, ShortPrefix, WatchPrefix>>
patterns == <<WatchPrefix, ShortPrefix, EmbedPrefix>>

\* pattern p matches url at position i: the literal prefix, then IdLen
\* characters of the class
MatchAt(p, url, i) ==
  /\ i + Len(p) + IdLen - 1 <= Len(url)
  /\ SubSeq(url, i, i + Len(p) - 1) = p
  /\ \A k \in 1..IdLen : url[i + Len(p) + k - 1] \in IdChars

\* re.search(pattern, url): the leftmost match, or no match
HasMatch(p, url) == \E i \in 1..Len(url) : MatchAt(p, url, i)

FirstMatch(p, url) ==
  CHOOSE i \in 1..Len(url) :
    /\ MatchAt(p, url, i)
    /\ \A j \in 1..(i - 1) : ~MatchAt(p, url, j)

\* match.group(1): the captured token (group_whole is match.group(0))
group_whole(p, url) ==
  SubSeq(url, FirstMatch(p, url), FirstMatch(p, url) + Len(p) + IdLen - 1)
group(p, url) ==
  SubSeq(url, FirstMatch(p, url) + Len(p), FirstMatch(p, url) + Len(p) + IdLen - 1)

\* outcome of a call: a returned value or a raised exception
\* (net: the network requests the call issued)
Returned(v) == [exc |-> "none", value |-> v, msg |-> <<>>, net |-> <<>>]
Raised(e, m) == [exc |-> e, value |-> <<>>, msg |-> m, net |-> <<>>]

RECURSIVE extract_from(_, _)
\* the for loop over patterns, from the n-th pattern on
extract_from(n, url) ==
  IF n > Len(patterns)
    THEN Raised("ValueError", <<"Could not extract video ID from URL: ">> \o url)
    ELSE IF HasMatch(patterns[n], url)
           THEN Returned(group(patterns[n], url))
           ELSE extract_from(n + 1, url)

extract_video_id(url) == extract_from(1, url)

----------------------------------------------------------------------------
(* Inputs of the extractor *)

IdA == <<"d", "Q", "w", "4", "w", "9", "W", "g", "X", "c", "Q">>
IdB == <<"a", "_", "b", "-", "c", "_", "d", "-", "e", "_", "9">>
Short10 == <<"a", "b", "c", "d", "e", "f", "g", "h", "i", "j">>
Scheme == <<"h", "t", "t", "p", "s", ":", "/", "/", "w", "w", "w", ".">>
Amp == <<"&">>

Segments == {WatchPrefix, ShortPrefix, EmbedPrefix, IdA, IdB, Short10, Scheme, Amp}

RECURSIVE UrlsOf(_)
\* every concatenation of at most n segments
UrlsOf(n) ==
  IF n = 0 THEN {<<>>}
  ELSE UrlsOf(n - 1) \cup {u \o s : u \in UrlsOf(n - 1), s \in Segments}

Urls == UrlsOf(MaxSegs)

NoResult == [exc |-> "pending", value |-> <<>>, msg |-> <<>>, net |-> <<>>]

\* the workers that serve the OAuth callback
Procs == {"w1", "w2"}

NoSession == [at |-> "idle"]
NoCall == [id |-> 0]

\* the OAuth variant before anything ran: no response, an empty table
AuthIdle ==
  /\ api_response = "none"
  /\ users = <<>>
  /\ session = [p \in Procs |-> NoSession]
  /\ returned = NoCall
  /\ started = 0

\* the handler's locals and outputs before anything ran
Idle ==
  /\ video_id = <<>>
  /\ video_info = [title |-> <<>>, thumbnail |-> <<>>]
  /\ transcript = <<>>
  /\ summary = <<>>
  /\ calls = <<>>
  /\ net = <<>>
  /\ response = <<>>
  /\ exit_code = "running"
  /\ stdout = <<>>
  /\ log = <<>>
  /\ events = <<>>
  /\ failures = <<>>
  /\ AuthIdle

InitExtract ==
  /\ surface = "call"
  /\ video_url \in Urls
  /\ env_key = "None"
  /\ pc = "Start"
  /\ result = NoResult
  /\ Idle

\* a direct call of extract_video_id(video_url)
CallExtract ==
  /\ surface = "call"
  /\ pc = "Start"
  /\ result' = extract_video_id(video_url)
  /\ pc' = "Done"
  /\ UNCHANGED auth_state
  /\ UNCHANGED <<surface, video_url, env_key, video_id, video_info, transcript,
                 summary, calls, net, response, exit_code, stdout, log, events,
                 failures>>

NextExtract == CallExtract

SpecExtract == InitExtract /\ [][NextExtract]_vars

----------------------------------------------------------------------------
(* Properties of the extractor *)

\* the 11-character tokens that directly follow an occurrence of prefix p
TokensAfter(p, url) ==
  {SubSeq(url, i + Len(p), i + Len(p) + 10) :
     i \in {j \in 1..Len(url) :
              /\ j + Len(p) + 10 <= Len(url)
              /\ \A k \in 1..Len(p) : url[j + k - 1] = p[k]
              /\ \A k \in 0..10 : url[j + Len(p) + k] \in IdChars}}

ShapeTokens(url) ==
  TokensAfter(WatchPrefix, url) \cup TokensAfter(ShortPrefix, url)
    \cup TokensAfter(EmbedPrefix, url)

\* C1: when the URL contains an accepted shape followed by an 11-character
\* token, extract_video_id returns an 11-character token that directly
\* follows one of the recognized prefixes in the URL (that exact token when
\* there is only one).
C1_ReturnsToken ==
  (pc = "Done" /\ surface = "call" /\ ShapeTokens(video_url) # {}) =>
     /\ result.exc = "none"
     /\ Len(result.value) = 11
     /\ result.value \in ShapeTokens(video_url)

C1_Witness ==
  /\ pc = "Done" /\ surface = "call"
  /\ ShapeTokens(video_url) = {IdA}
  /\ result.value = IdA

\* C2: when no 11-character token directly follows any recognized prefix,
\* extract_video_id raises ValueError and returns no identifier.
C2_RaisesInvalidUrl ==
  (pc = "Done" /\ surface = "call" /\ ShapeTokens(video_url) = {}) =>
     /\ result.exc = "ValueError"
     /\ result.value = <<>>

C2_Witness ==
  /\ pc = "Done" /\ surface = "call"
  /\ video_url = ShortPrefix \o Short10 \o Amp
  /\ result.exc = "ValueError"

\* C10: the shapes are tried in the order watch?v=, youtu.be/, embed/; the
\* token of the highest-priority shape present in the URL is returned,
\* wherever the shapes occur in the string.
C10_PriorityOrder ==
  (pc = "Done" /\ surface = "call") =>
     /\ TokensAfter(WatchPrefix, video_url) # {} =>
          result.value \in TokensAfter(WatchPrefix, video_url)
     /\ (TokensAfter(WatchPrefix, video_url) = {}
           /\ TokensAfter(ShortPrefix, video_url) # {}) =>
          result.value \in TokensAfter(ShortPrefix, video_url)
     /\ (TokensAfter(WatchPrefix, video_url) = {}
           /\ TokensAfter(ShortPrefix, video_url) = {}
           /\ TokensAfter(EmbedPrefix, video_url) # {}) =>
          result.value \in TokensAfter(EmbedPrefix, video_url)

\* an embed shape occurs before a watch shape with another token
C10_Witness ==
  /\ pc = "Done" /\ surface = "call"
  /\ video_url = EmbedPrefix \o IdA \o WatchPrefix \o IdB
  /\ result.value = IdB

----------------------------------------------------------------------------
(* The summarization client, utils/gemini.py *)

\* values of os.environ.get("ARMY_ACCESS_KEY"): unset, empty, set
KeyConfigs == {"None", "", "secret"}

\* what the relay does with the POST
BackendOutcomes ==
  {"ok_text", "ok_no_text", "ok_not_dict", "bad_json_wrapped", "bad_json_raw",
   "conn_error", "http_error_json", "http_error_text"}

\* the outcomes in which the POST fails or returns a non-success status
TransportFailures == {"conn_error", "http_error_json", "http_error_text"}

SummaryText == <<"- point one">>
ConnErrorText == "ConnectionError: connection refused"
HttpErrorText == "503 Server Error: Service Unavailable"
BackendJsonBody == "{'detail': 'upstream quota'}"
BackendTextBody == "<html>Bad Gateway</html>"

\* str() parts that come from the transport or from the relay's response
TransportDetails ==
  {ConnErrorText, HttpErrorText, BackendJsonBody, BackendTextBody}

PostGenerate(prompt, outcome) ==
  [request |-> "POST /generate", prompt |-> prompt, outcome |-> outcome]

\* the try block around requests.post, for a key that is set
ask_post(prompt, outcome) ==
  LET r ==
    CASE outcome = "ok_text" -> Returned(SummaryText)
      [] outcome = "ok_no_text" -> Returned(<<>>)
      [] outcome = "ok_not_dict" ->
           Raised("AttributeError", <<"'list' object has no attribute 'get'">>)
      [] outcome = "bad_json_wrapped" ->
           Raised("ValueError",
                  <<"Error calling Gemini Army API: ", "Expecting value">>)
      [] outcome = "bad_json_raw" ->
           Raised("JSONDecodeError", <<"Expecting value">>)
      [] outcome = "conn_error" ->
           Raised("ValueError",
                  <<"Error calling Gemini Army API: ", ConnErrorText>>)
      [] outcome = "http_error_json" ->
           Raised("ValueError",
                  <<"Error calling Gemini Army API: ", HttpErrorText,
                    " - Details: ", BackendJsonBody>>)
      [] outcome = "http_error_text" ->
           Raised("ValueError",
                  <<"Error calling Gemini Army API: ", HttpErrorText,
                    " - Content: ", BackendTextBody>>)
  IN [r EXCEPT !.net = <<PostGenerate(prompt, outcome)>>]

KeyNotSet == <<"ARMY_ACCESS_KEY environment variable is not set">>

\* ask without the credential check in front of the request
ask_unchecked(prompt, api_key, outcome) == ask_post(prompt, outcome)

ask(prompt, api_key, outcome) ==
  IF api_key \in {"None", ""}
    THEN Raised("ValueError", KeyNotSet)
    ELSE ask_post(prompt, outcome)

PromptHead == "Your job is to summarize the given YouTube video transcript. ... Transcript:"

\* SUMMARIZE_PROMPT.format(transcript=transcript)
SUMMARIZE_PROMPT(t) == <<PromptHead>> \o t

----------------------------------------------------------------------------
(* The providers the handlers call with one argument: get_video_info(id)   *)
(* and get_transcript(id).                                                 *)

InfoOutcomes == {"ok", "fetch_failed"}
VideoTitle == <<"Some Title">>

Thumbnail(id) == <<"https://img.youtube.com/vi/">> \o id \o <<"/hqdefault.jpg">>

\* metadata fetch that lets the failure of the external call out
get_video_info_raising(id, outcome) ==
  LET r == IF outcome = "ok"
             THEN Returned([title |-> VideoTitle, thumbnail |-> Thumbnail(id)])
             ELSE Raised("ConnectionError", <<"oembed fetch failed">>)
  IN [r EXCEPT !.net = <<[request |-> "GET oembed", outcome |-> outcome]>>]

get_video_info(id, outcome) ==
  [Returned([title |-> IF outcome = "ok" THEN VideoTitle ELSE <<>>,
             thumbnail |-> Thumbnail(id)])
     EXCEPT !.net = <<[request |-> "GET oembed", outcome |-> outcome]>>]

TranscriptOutcomes == {"ok", "disabled", "not_found", "unavailable", "other"}
TranscriptText == <<"hello", " ", "world">>

get_transcript(id, outcome) ==
  LET r ==
    CASE outcome = "ok" -> Returned(TranscriptText)
      [] outcome = "disabled" ->
           Raised("ValueError", <<"Transcripts are disabled for this video">>)
      [] outcome = "not_found" ->
           Raised("ValueError", <<"No transcript found for this video">>)
      [] outcome = "unavailable" ->
           Raised("ValueError", <<"Video is unavailable">>)
      [] outcome = "other" ->
           Raised("Exception", <<"transcript request failed">>)
  IN [r EXCEPT !.net = <<[request |-> "GET transcript", outcome |-> outcome]>>]

----------------------------------------------------------------------------
(* Shared bookkeeping of a stage call *)

\* classes caught by "except ValueError"
IsValueError(e) == e \in {"ValueError", "JSONDecodeError"}

\* stage was called and produced r
Invoke(stage, r) ==
  /\ calls' = Append(calls, stage)
  /\ net' = net \o r.net
  /\ failures' = IF r.exc = "none" THEN failures
                 ELSE Append(failures, [stage |-> stage, exc |-> r.exc, msg |-> r.msg])

Stages == <<"extract_video_id", "get_video_info", "get_transcript", "ask">>

\* the URLs requests are made with
RequestUrls ==
  { Scheme \o WatchPrefix \o IdA,
    ShortPrefix \o IdB \o Amp,
    Scheme \o EmbedPrefix \o Short10,
    Scheme }

----------------------------------------------------------------------------
(* POST /api/summarize, app.py *)

GenericError == <<"An unexpected error occurred">>

\* the except clauses with the status codes exchanged
summarize_except_swapped(r) ==
  IF IsValueError(r.exc)
    THEN [status |-> 500, body |-> [error |-> GenericError]]
    ELSE [status |-> 400, body |-> [error |-> r.msg]]

\* the except clauses of the handler: the response for a raised exception
summarize_except(r) ==
  IF IsValueError(r.exc)
    THEN [status |-> 400, body |-> [error |-> r.msg]]
    ELSE [status |-> 500, body |-> [error |-> GenericError]]

summarize_extract ==
  /\ surface = "http" /\ pc = "ExtractId"
  /\ LET r == extract_video_id(video_url) IN
       /\ Invoke("extract_video_id", r)
       /\ IF r.exc = "none"
            THEN /\ video_id' = r.value
                 /\ pc' = "FetchInfo"
                 /\ UNCHANGED response
            ELSE /\ response' = Append(response, summarize_except(r))
                 /\ pc' = "Done"
                 /\ UNCHANGED video_id
  /\ UNCHANGED auth_state
  /\ UNCHANGED <<surface, video_url, env_key, result, video_info, transcript,
                 summary, exit_code, stdout, log, events>>

summarize_info ==
  /\ surface = "http" /\ pc = "FetchInfo"
  /\ \E o \in InfoOutcomes :
       LET r == get_video_info(video_id, o) IN
         /\ Invoke("get_video_info", r)
         /\ IF r.exc = "none"
              THEN /\ video_info' = r.value
                   /\ pc' = "FetchTranscript"
                   /\ UNCHANGED response
              ELSE /\ response' = Append(response, summarize_except(r))
                   /\ pc' = "Done"
                   /\ UNCHANGED video_info
  /\ UNCHANGED auth_state
  /\ UNCHANGED <<surface, video_url, env_key, result, video_id, transcript,
                 summary, exit_code, stdout, log, events>>

summarize_transcript ==
  /\ surface = "http" /\ pc = "FetchTranscript"
  /\ \E o \in TranscriptOutcomes :
       LET r == get_transcript(video_id, o) IN
         /\ Invoke("get_transcript", r)
         /\ IF r.exc = "none"
              THEN /\ transcript' = r.value
                   /\ pc' = "Summarize"
                   /\ UNCHANGED response
              ELSE /\ response' = Append(response, summarize_except(r))
                   /\ pc' = "Done"
                   /\ UNCHANGED transcript
  /\ UNCHANGED auth_state
  /\ UNCHANGED <<surface, video_url, env_key, result, video_id, video_info,
                 summary, exit_code, stdout, log, events>>

summarize_ask ==
  /\ surface = "http" /\ pc = "Summarize"
  /\ \E o \in BackendOutcomes :
       LET r == ask(SUMMARIZE_PROMPT(transcript), env_key, o) IN
         /\ Invoke("ask", r)
         /\ pc' = "Done"
         /\ IF r.exc = "none"
              THEN /\ summary' = r.value
                   /\ response' = Append(response,
                        [status |-> 200,
                         body |-> [video_id |-> video_id,
                                   video_title |-> video_info.title,
                                   thumbnail |-> video_info.thumbnail,
                                   summary |-> r.value]])
              ELSE /\ response' = Append(response, summarize_except(r))
                   /\ UNCHANGED summary
  /\ UNCHANGED auth_state
  /\ UNCHANGED <<surface, video_url, env_key, result, video_id, video_info,
                 transcript, exit_code, stdout, log, events>>

summarize ==
  \/ summarize_extract
  \/ summarize_info
  \/ summarize_transcript
  \/ summarize_ask

----------------------------------------------------------------------------
(* cli.py *)

Rule == "=================================================="

Info(m) == [level |-> "INFO", msg |-> m]
Error(m) == [level |-> "ERROR", msg |-> m]

\* the two except clauses of main: the record logged before sys.exit(1)
main_except(r) ==
  IF IsValueError(r.exc)
    THEN Error(<<"Validation Error: ">> \o r.msg)
    ELSE Error(<<"An unexpected error occurred: ">> \o r.msg)

main_check_key ==
  /\ surface = "cli" /\ pc = "CheckKey"
  /\ IF env_key \in {"None", ""}
       THEN /\ log' = Append(log, Error(KeyNotSet))
            /\ exit_code' = "1"
            /\ pc' = "Done"
       ELSE /\ pc' = "ExtractId"
            /\ UNCHANGED <<log, exit_code>>
  /\ UNCHANGED auth_state
  /\ UNCHANGED <<surface, video_url, env_key, result, video_id, video_info,
                 transcript, summary, calls, net, response, stdout, events,
                 failures>>

main_extract ==
  /\ surface = "cli" /\ pc = "ExtractId"
  /\ LET r == extract_video_id(video_url) IN
       /\ Invoke("extract_video_id", r)
       /\ IF r.exc = "none"
            THEN /\ video_id' = r.value
                 /\ log' = log \o <<Info(<<"Extracting video ID...">>),
                                     Info(<<"Video ID: ">> \o r.value)>>
                 /\ pc' = "FetchInfo"
                 /\ UNCHANGED exit_code
            ELSE /\ log' = log \o <<Info(<<"Extracting video ID...">>),
                                     main_except(r)>>
                 /\ exit_code' = "1"
                 /\ pc' = "Done"
                 /\ UNCHANGED video_id
  /\ UNCHANGED auth_state
  /\ UNCHANGED <<surface, video_url, env_key, result, video_info, transcript,
                 summary, response, stdout, events>>

main_info ==
  /\ surface = "cli" /\ pc = "FetchInfo"
  /\ \E o \in InfoOutcomes :
       LET r == get_video_info(video_id, o) IN
         /\ Invoke("get_video_info", r)
         /\ IF r.exc = "none"
              THEN /\ video_info' = r.value
                   /\ log' = log \o <<Info(<<"Fetching video info...">>),
                                       Info(<<"Video Title: ">> \o r.value.title)>>
                   /\ pc' = "FetchTranscript"
                   /\ UNCHANGED exit_code
              ELSE /\ log' = log \o <<Info(<<"Fetching video info...">>),
                                       main_except(r)>>
                   /\ exit_code' = "1"
                   /\ pc' = "Done"
                   /\ UNCHANGED video_info
  /\ UNCHANGED auth_state
  /\ UNCHANGED <<surface, video_url, env_key, result, video_id, transcript,
                 summary, response, stdout, events>>

\* the transcript step with the sys.exit(1) of the except clause left out
main_transcript_no_exit ==
  /\ surface = "cli" /\ pc = "FetchTranscript"
  /\ \E o \in TranscriptOutcomes :
       LET r == get_transcript(video_id, o) IN
         /\ Invoke("get_transcript", r)
         /\ pc' = "Summarize"
         /\ UNCHANGED exit_code
         /\ IF r.exc = "none"
              THEN /\ transcript' = r.value
                   /\ log' = log \o <<Info(<<"Fetching transcript...">>),
                                       Info(<<"Transcript fetched successfully.">>)>>
              ELSE /\ log' = log \o <<Info(<<"Fetching transcript...">>),
                                       main_except(r)>>
                   /\ UNCHANGED transcript
  /\ UNCHANGED auth_state
  /\ UNCHANGED <<surface, video_url, env_key, result, video_id, video_info,
                 summary, response, stdout, events>>

main_transcript ==
  /\ surface = "cli" /\ pc = "FetchTranscript"
  /\ \E o \in TranscriptOutcomes :
       LET r == get_transcript(video_id, o) IN
         /\ Invoke("get_transcript", r)
         /\ IF r.exc = "none"
              THEN /\ transcript' = r.value
                   /\ log' = log \o <<Info(<<"Fetching transcript...">>),
                                       Info(<<"Transcript fetched successfully.">>)>>
                   /\ pc' = "Summarize"
                   /\ UNCHANGED exit_code
              ELSE /\ log' = log \o <<Info(<<"Fetching transcript...">>),
                                       main_except(r)>>
                   /\ exit_code' = "1"
                   /\ pc' = "Done"
                   /\ UNCHANGED transcript
  /\ UNCHANGED auth_state
  /\ UNCHANGED <<surface, video_url, env_key, result, video_id, video_info,
                 summary, response, stdout, events>>

\* the five print calls of the output block
SummaryBlock(title, text) ==
  << <<"\n", Rule>>, <<"SUMMARY: ">> \o title, <<Rule, "\n">>, text,
     <<"\n", Rule>> >>

\* the last step printing the block also when ask raised
main_ask_always_prints ==
  /\ surface = "cli" /\ pc = "Summarize"
  /\ \E o \in BackendOutcomes :
       LET r == ask(SUMMARIZE_PROMPT(transcript), env_key, o) IN
         /\ Invoke("ask", r)
         /\ pc' = "Done"
         /\ stdout' = stdout \o SummaryBlock(video_info.title, r.value)
         /\ IF r.exc = "none"
              THEN /\ summary' = r.value
                   /\ log' = Append(log, Info(<<"Summarizing with Gemini...">>))
                   /\ exit_code' = "0"
              ELSE /\ log' = log \o <<Info(<<"Summarizing with Gemini...">>),
                                       main_except(r)>>
                   /\ exit_code' = "1"
                   /\ UNCHANGED summary
  /\ UNCHANGED auth_state
  /\ UNCHANGED <<surface, video_url, env_key, result, video_id, video_info,
                 transcript, response, events>>

main_ask ==
  /\ surface = "cli" /\ pc = "Summarize"
  /\ \E o \in BackendOutcomes :
       LET r == ask(SUMMARIZE_PROMPT(transcript), env_key, o) IN
         /\ Invoke("ask", r)
         /\ pc' = "Done"
         /\ IF r.exc = "none"
              THEN /\ summary' = r.value
                   /\ log' = Append(log, Info(<<"Summarizing with Gemini...">>))
                   /\ stdout' = stdout \o SummaryBlock(video_info.title, r.value)
                   /\ exit_code' = "0"
              ELSE /\ log' = log \o <<Info(<<"Summarizing with Gemini...">>),
                                       main_except(r)>>
                   /\ exit_code' = "1"
                   /\ UNCHANGED <<summary, stdout>>
  /\ UNCHANGED auth_state
  /\ UNCHANGED <<surface, video_url, env_key, result, video_id, video_info,
                 transcript, response, events>>

main ==
  \/ main_check_key
  \/ main_extract
  \/ main_info
  \/ main_transcript
  \/ main_ask

----------------------------------------------------------------------------
(* POST /api/summarize in streaming mode: the event generator *)

Progress(m) == [event |-> "progress", data |-> [message |-> m]]

\* the terminal event for a raised exception
stream_except(r) ==
  [event |-> "error",
   data |-> [error |-> IF IsValueError(r.exc) THEN r.msg ELSE GenericError]]

stream_extract ==
  /\ surface = "stream" /\ pc = "ExtractId"
  /\ LET r == extract_video_id(video_url) IN
       /\ Invoke("extract_video_id", r)
       /\ IF r.exc = "none"
            THEN /\ video_id' = r.value
                 /\ pc' = "FetchInfo"
                 /\ UNCHANGED events
            ELSE /\ events' = Append(events, stream_except(r))
                 /\ pc' = "Done"
                 /\ UNCHANGED video_id
  /\ UNCHANGED auth_state
  /\ UNCHANGED <<surface, video_url, env_key, result, video_info, transcript,
                 summary, response, exit_code, stdout, log>>

stream_info ==
  /\ surface = "stream" /\ pc = "FetchInfo"
  /\ \E o \in InfoOutcomes :
       LET r == get_video_info(video_id, o) IN
         /\ Invoke("get_video_info", r)
         /\ IF r.exc = "none"
              THEN /\ video_info' = r.value
                   /\ events' = Append(events, Progress(<<"Fetching video info...">>))
                   /\ pc' = "FetchTranscript"
              ELSE /\ events' = events \o <<Progress(<<"Fetching video info...">>),
                                             stream_except(r)>>
                   /\ pc' = "Done"
                   /\ UNCHANGED video_info
  /\ UNCHANGED auth_state
  /\ UNCHANGED <<surface, video_url, env_key, result, video_id, transcript,
                 summary, response, exit_code, stdout, log>>

stream_transcript ==
  /\ surface = "stream" /\ pc = "FetchTranscript"
  /\ \E o \in TranscriptOutcomes :
       LET r == get_transcript(video_id, o) IN
         /\ Invoke("get_transcript", r)
         /\ IF r.exc = "none"
              THEN /\ transcript' = r.value
                   /\ events' = Append(events, Progress(<<"Fetching transcript...">>))
                   /\ pc' = "Summarize"
              ELSE /\ events' = events \o <<Progress(<<"Fetching transcript...">>),
                                             stream_except(r)>>
                   /\ pc' = "Done"
                   /\ UNCHANGED transcript
  /\ UNCHANGED auth_state
  /\ UNCHANGED <<surface, video_url, env_key, result, video_id, video_info,
                 summary, response, exit_code, stdout, log>>

\* the last step of the generator emitting a progress event after the
\* terminal one
stream_ask_trailing_progress ==
  /\ surface = "stream" /\ pc = "Summarize"
  /\ \E o \in BackendOutcomes :
       LET r == ask(SUMMARIZE_PROMPT(transcript), env_key, o) IN
         /\ Invoke("ask", r)
         /\ pc' = "Done"
         /\ IF r.exc = "none"
              THEN /\ summary' = r.value
                   /\ events' = events \o
                        <<[event |-> "complete",
                           data |-> [video_id |-> video_id,
                                     video_title |-> video_info.title,
                                     thumbnail |-> video_info.thumbnail,
                                     summary |-> r.value]],
                          Progress(<<"Generating summary...">>)>>
              ELSE /\ events' = events \o <<stream_except(r),
                                             Progress(<<"Generating summary...">>)>>
                   /\ UNCHANGED summary
  /\ UNCHANGED auth_state
  /\ UNCHANGED <<surface, video_url, env_key, result, video_id, video_info,
                 transcript, response, exit_code, stdout, log>>

stream_ask ==
  /\ surface = "stream" /\ pc = "Summarize"
  /\ \E o \in BackendOutcomes :
       LET r == ask(SUMMARIZE_PROMPT(transcript), env_key, o) IN
         /\ Invoke("ask", r)
         /\ pc' = "Done"
         /\ IF r.exc = "none"
              THEN /\ summary' = r.value
                   /\ events' = events \o
                        <<Progress(<<"Generating summary...">>),
                          [event |-> "complete",
                           data |-> [video_id |-> video_id,
                                     video_title |-> video_info.title,
                                     thumbnail |-> video_info.thumbnail,
                                     summary |-> r.value]]>>
              ELSE /\ events' = events \o <<Progress(<<"Generating summary...">>),
                                             stream_except(r)>>
                   /\ UNCHANGED summary
  /\ UNCHANGED auth_state
  /\ UNCHANGED <<surface, video_url, env_key, result, video_id, video_info,
                 transcript, response, exit_code, stdout, log>>

summarize_stream ==
  \/ stream_extract
  \/ stream_info
  \/ stream_transcript
  \/ stream_ask

----------------------------------------------------------------------------
(* One request on one of the delivery surfaces *)

Init ==
  /\ surface \in {"http", "cli", "stream"}
  /\ video_url \in RequestUrls
  /\ env_key \in KeyConfigs
  /\ pc = IF surface = "cli" THEN "CheckKey" ELSE "ExtractId"
  /\ result = NoResult
  /\ Idle

Next == summarize \/ main \/ summarize_stream

Spec == Init /\ [][Next]_vars

----------------------------------------------------------------------------
(* Properties of a request *)

Called(stage) == \E i \in DOMAIN calls : calls[i] = stage

\* the backend POST was issued and ended in one of the outcomes os
Posted(os) ==
  \E i \in DOMAIN net : net[i].request = "POST /generate" /\ net[i].outcome \in os

InfoFetchFailed ==
  \E i \in DOMAIN net : net[i].request = "GET oembed" /\ net[i].outcome = "fetch_failed"

KeyMissing == env_key \in {"None", ""}

\* C3: a batch request gets no response before the handler ends and exactly
\* one when it ends: 200 with the four result fields when all four stages
\* succeeded, 400 with {error} when a stage raised a ValueError, 500 with
\* {error} when a stage raised anything else.
C3_OneTypedResponse ==
  surface = "http" =>
    /\ pc # "Done" => response = <<>>
    /\ pc = "Done" =>
         /\ Len(response) = 1
         /\ failures = <<>> =>
              /\ calls = Stages
              /\ response[1].status = 200
              /\ DOMAIN response[1].body =
                   {"video_id", "video_title", "thumbnail", "summary"}
         /\ (failures # <<>> /\ IsValueError(failures[1].exc)) =>
              /\ response[1].status = 400
              /\ DOMAIN response[1].body = {"error"}
         /\ (failures # <<>> /\ ~IsValueError(failures[1].exc)) =>
              /\ response[1].status = 500
              /\ DOMAIN response[1].body = {"error"}

C3_Witness ==
  /\ surface = "http" /\ pc = "Done"
  /\ failures # <<>>
  /\ failures[1].stage = "get_transcript"
  /\ failures[1].exc = "Exception"
  /\ response[1].status = 500

\* C4: when the backend POST fails or returns a non-success status, the
\* batch response is 500 with the generic message and carries no transport
\* detail or response body.
C4_TransportFailureIs500 ==
  (surface = "http" /\ pc = "Done" /\ Posted(TransportFailures)) =>
     /\ response[1].status = 500
     /\ response[1].body.error = GenericError
     /\ \A i \in DOMAIN response[1].body.error :
          response[1].body.error[i] \notin TransportDetails

\* C5: when ARMY_ACCESS_KEY is unset or empty, no request to the backend is
\* issued, and a call of ask fails with the configuration error.
C5_NoRequestWithoutKey ==
  KeyMissing =>
    /\ ~Posted(BackendOutcomes)
    /\ Called("ask") =>
         /\ failures # <<>>
         /\ failures[Len(failures)] =
              [stage |-> "ask", exc |-> "ValueError", msg |-> KeyNotSet]

C5_Witness ==
  /\ surface = "http" /\ pc = "Done"
  /\ env_key = ""
  /\ Called("ask")
  /\ response[1].status = 400
  /\ response[1].body.error = KeyNotSet

\* error reports made so far by the batch handler or the CLI
ErrorReports ==
  IF surface = "http"
    THEN Cardinality({i \in DOMAIN response : response[i].status # 200})
    ELSE Cardinality({i \in DOMAIN log : log[i].level = "ERROR"})

\* C6: the stages are invoked in the order extract_video_id, get_video_info,
\* get_transcript, ask, each at most once; after a stage failed the request
\* is over, the failed stage is the last one invoked, and the failure is
\* reported exactly once.
C6_FixedOrderNoRetry ==
  surface \in {"http", "cli"} =>
    /\ Len(calls) <= Len(Stages)
    /\ calls = SubSeq(Stages, 1, Len(calls))
    /\ Len(failures) <= 1
    /\ ErrorReports <= 1
    /\ failures # <<>> =>
         /\ pc = "Done"
         /\ calls[Len(calls)] = failures[1].stage
         /\ ErrorReports = 1

C6_Witness ==
  /\ surface = "cli" /\ pc = "Done"
  /\ failures # <<>>
  /\ failures[1].stage = "get_transcript"
  /\ calls = SubSeq(Stages, 1, 3)
  /\ ErrorReports = 1

\* C7: the CLI ends with status 1, an ERROR record logged last and nothing
\* printed, when the credential is missing or a stage failed; it ends with
\* status 0 and the summary block printed exactly when all stages succeeded.
C7_CliExitStatus ==
  surface = "cli" =>
    /\ pc # "Done" => (exit_code = "running" /\ stdout = <<>>)
    /\ pc = "Done" =>
         IF ~KeyMissing /\ failures = <<>> /\ calls = Stages
           THEN /\ exit_code = "0"
                /\ stdout = SummaryBlock(video_info.title, summary)
                /\ \A i \in DOMAIN log : log[i].level # "ERROR"
           ELSE /\ exit_code = "1"
                /\ stdout = <<>>
                /\ log # <<>>
                /\ log[Len(log)].level = "ERROR"

C7_Witness ==
  /\ surface = "cli" /\ pc = "Done"
  /\ failures # <<>>
  /\ failures[1].stage = "ask"
  /\ exit_code = "1"
  /\ stdout = <<>>

TerminalEvents ==
  {i \in DOMAIN events : events[i].event \in {"complete", "error"}}

\* C8: in streaming mode a terminal event is always the last event emitted,
\* a finished request has exactly one, and a request whose stages all
\* succeeded has emitted exactly progress, progress, progress, complete.
C8_StreamEvents ==
  surface = "stream" =>
    /\ Cardinality(TerminalEvents) <= 1
    /\ \A i \in TerminalEvents : i = Len(events)
    /\ pc = "Done" <=> Cardinality(TerminalEvents) = 1
    /\ (pc = "Done" /\ failures = <<>>) =>
         /\ Len(events) = 4
         /\ \A i \in 1..3 : events[i].event = "progress"
         /\ events[4].event = "complete"

C8_Witness ==
  /\ surface = "stream" /\ pc = "Done"
  /\ failures = <<>>
  /\ Len(events) = 4
  /\ events[4].event = "complete"

----------------------------------------------------------------------------
(* get_video_info(youtube, video_id), utils/youtube.py: the authenticated   *)
(* metadata fetch.  A dict is a function on the keys it holds.              *)

EmptyDict == [k \in {} |-> ""]
NoneValue == "<None>"

\* d.get(k, default)
Get(d, k, default) == IF k \in DOMAIN d THEN d[k] ELSE default

\* Python's "a or b": a when it is truthy, else b
Falsy(a) == a = NoneValue \/ a = ""
Or(a, b) == IF Falsy(a) THEN b ELSE a

\* the preference chain starting at medium
thumbnail_url_medium_first(thumbnails) ==
  Or(Get(Get(thumbnails, "medium", EmptyDict), "url", NoneValue),
     Or(Get(Get(thumbnails, "high", EmptyDict), "url", NoneValue),
        Get(Get(thumbnails, "default", EmptyDict), "url", "")))

\* high or medium or default
thumbnail_url(thumbnails) ==
  Or(Get(Get(thumbnails, "high", EmptyDict), "url", NoneValue),
     Or(Get(Get(thumbnails, "medium", EmptyDict), "url", NoneValue),
        Get(Get(thumbnails, "default", EmptyDict), "url", "")))

\* exec: the outcome of request.execute(), raised or a response body
youtube_get_video_info(exec) ==
  IF exec.raised
    THEN Raised("HttpError", <<"videos.list failed">>)
    ELSE LET items == Get(exec.body, "items", <<>>) IN
      IF items = <<>>
        THEN Returned([title |-> "", thumbnail |-> ""])
        ELSE LET snippet == Get(items[1], "snippet", EmptyDict) IN
          Returned([title |-> Get(snippet, "title", ""),
                    thumbnail |->
                      thumbnail_url(Get(snippet, "thumbnails", EmptyDict))])

(* Inputs: the responses of videos.list *)

Levels == {"high", "medium", "default"}
UrlValues == {"", "a.jpg", "b.jpg"}

\* one thumbnail entry: without url, or with an empty or a real url
UrlDicts == {EmptyDict} \cup {[k \in {"url"} |-> u] : u \in UrlValues}

ThumbnailDicts == UNION {[S -> UrlDicts] : S \in SUBSET Levels}

Snippets ==
  {EmptyDict, [k \in {"title"} |-> "T"]}
    \cup {[k \in {"thumbnails"} |-> th] : th \in ThumbnailDicts}
    \cup {[k \in {"title", "thumbnails"} |-> IF k = "title" THEN "T" ELSE th] :
            th \in ThumbnailDicts}

Items == {EmptyDict} \cup {[k \in {"snippet"} |-> sn] : sn \in Snippets}

OtherItem ==
  [k \in {"snippet"} |->
     [j \in {"title"} |-> "other"]]

ItemLists ==
  {<<>>} \cup {<<it>> : it \in Items} \cup {<<it, OtherItem>> : it \in Items}

ApiResponses == {EmptyDict} \cup {[k \in {"items"} |-> l] : l \in ItemLists}

InitInfo ==
  /\ surface = "info"
  /\ video_url = <<>>
  /\ env_key = "None"
  /\ pc = "Start"
  /\ result = NoResult
  /\ video_id = <<>>
  /\ video_info = [title |-> <<>>, thumbnail |-> <<>>]
  /\ transcript = <<>>
  /\ summary = <<>>
  /\ calls = <<>>
  /\ net = <<>>
  /\ response = <<>>
  /\ exit_code = "running"
  /\ stdout = <<>>
  /\ log = <<>>
  /\ events = <<>>
  /\ failures = <<>>
  /\ users = <<>>
  /\ session = [p \in Procs |-> NoSession]
  /\ returned = NoCall
  /\ started = 0
  /\ \/ api_response = [raised |-> TRUE, body |-> EmptyDict]
     \/ \E b \in ApiResponses : api_response = [raised |-> FALSE, body |-> b]

\* a call of get_video_info(youtube, video_id)
CallVideoInfo ==
  /\ surface = "info"
  /\ pc = "Start"
  /\ result' = youtube_get_video_info(api_response)
  /\ pc' = "Done"
  /\ UNCHANGED auth_state
  /\ UNCHANGED <<surface, video_url, env_key, video_id, video_info, transcript,
                 summary, calls, net, response, exit_code, stdout, log, events,
                 failures>>

NextInfo == CallVideoInfo

SpecInfo == InitInfo /\ [][NextInfo]_vars

(* Properties of the authenticated metadata fetch *)

\* the response names no video
NotFound ==
  \/ "items" \notin DOMAIN api_response.body
  \/ api_response.body["items"] = <<>>

\* the thumbnails of the first item of the response
FirstThumbnails ==
  LET item == api_response.body["items"][1] IN
    IF "snippet" \in DOMAIN item /\ "thumbnails" \in DOMAIN item["snippet"]
      THEN item["snippet"]["thumbnails"]
      ELSE EmptyDict

\* resolution lvl carries a non-empty url
HasUrl(th, lvl) ==
  /\ lvl \in DOMAIN th
  /\ "url" \in DOMAIN th[lvl]
  /\ th[lvl]["url"] # ""

\* C11: the thumbnail returned is the url of the first of high, medium,
\* default that carries a non-empty url, the empty string when none does,
\* and title and thumbnail are both empty when the response has no items.
C11_ThumbnailPreference ==
  (surface = "info" /\ pc = "Done" /\ ~api_response.raised) =>
     /\ result.exc = "none"
     /\ IF NotFound
          THEN result.value = [title |-> "", thumbnail |-> ""]
          ELSE LET th == FirstThumbnails IN
            result.value.thumbnail =
              IF HasUrl(th, "high") THEN th["high"]["url"]
              ELSE IF HasUrl(th, "medium") THEN th["medium"]["url"]
              ELSE IF HasUrl(th, "default") THEN th["default"]["url"]
              ELSE ""

\* high has an empty url, medium and default have different urls
C11_Witness ==
  /\ surface = "info" /\ pc = "Done"
  /\ ~api_response.raised
  /\ ~NotFound
  /\ FirstThumbnails =
       [l \in Levels |-> [k \in {"url"} |->
          IF l = "high" THEN "" ELSE IF l = "medium" THEN "a.jpg" ELSE "b.jpg"]]
  /\ result.value.thumbnail = "a.jpg"

----------------------------------------------------------------------------
(* exchange_code_for_tokens, utils/oauth.py, on the User table of          *)
(* models/user.py.  Each worker runs one call at a time; the workers share  *)
(* the table and interleave between the select and the commit.              *)

\* calls of exchange_code_for_tokens begun in one run
MaxCalls == 3

Emails == {"a@x.org", "b@x.org"}
Tokens == {"t1", "t2"}
RefreshTokens == {NoneValue, "r1"}
\* user_info["name"], NoneValue when the key is missing
Names == {NoneValue, "Ann"}

\* select(User).where(User.email == email): the id of the first row, 0 for none
first_by_email(table, email) ==
  IF \E i \in DOMAIN table : table[i].email = email
    THEN table[CHOOSE i \in DOMAIN table :
                 /\ table[i].email = email
                 /\ \A j \in 1..(i - 1) : table[j].email # email].id
    ELSE 0

\* a column without the unique constraint
email_not_unique(table, email) == FALSE

\* email: str = Field(unique=True): the insert of email is rejected
email_unique(table, email) == \E i \in DOMAIN table : table[i].email = email

\* fetch_token or get_user_info raises: the call ends before the session
exchange_raise(p) ==
  /\ surface = "auth"
  /\ session[p].at = "idle"
  /\ started < MaxCalls
  /\ started' = started + 1
  /\ returned' = NoCall
  /\ UNCHANGED <<api_response, users, session>>
  /\ UNCHANGED <<surface, video_url, env_key, pc, result, video_id, video_info,
                 transcript, summary, calls, net, response, exit_code, stdout,
                 log, events, failures>>

\* fetch_token, get_user_info and the select by email
exchange_select(p) ==
  /\ surface = "auth"
  /\ session[p].at = "idle"
  /\ started < MaxCalls
  /\ started' = started + 1
  /\ \E e \in Emails, n \in Names, t \in Tokens, r \in RefreshTokens :
       session' = [session EXCEPT ![p] =
                     [at |-> "selected", email |-> e, name |-> n, token |-> t,
                      refresh_token |-> r,
                      existing_user |-> first_by_email(users, e)]]
  /\ UNCHANGED <<api_response, users, returned>>
  /\ UNCHANGED <<surface, video_url, env_key, pc, result, video_id, video_info,
                 transcript, summary, calls, net, response, exit_code, stdout,
                 log, events, failures>>

\* the update or the insert, session.commit() and the return
exchange_commit(p) ==
  /\ surface = "auth"
  /\ session[p].at = "selected"
  /\ LET c == session[p] IN
       IF c.existing_user # 0
         THEN /\ users' = [users EXCEPT ![c.existing_user] =
                   [@ EXCEPT !.token = c.token,
                             !.refresh_token = c.refresh_token,
                             !.name = IF c.name = NoneValue THEN @ ELSE c.name]]
              /\ returned' = [id |-> c.existing_user, call |-> c, before |-> users]
         ELSE IF email_unique(users, c.email)
           THEN /\ returned' = NoCall
                /\ UNCHANGED users
           ELSE /\ users' = Append(users,
                     [id |-> Len(users) + 1,
                      name |-> IF c.name = NoneValue THEN "" ELSE c.name,
                      email |-> c.email,
                      token |-> c.token,
                      refresh_token |-> c.refresh_token])
                /\ returned' = [id |-> Len(users) + 1, call |-> c, before |-> users]
  /\ session' = [session EXCEPT ![p] = NoSession]
  /\ UNCHANGED <<api_response, started>>
  /\ UNCHANGED <<surface, video_url, env_key, pc, result, video_id, video_info,
                 transcript, summary, calls, net, response, exit_code, stdout,
                 log, events, failures>>

exchange_code_for_tokens ==
  \E p \in Procs : exchange_raise(p) \/ exchange_select(p) \/ exchange_commit(p)

InitAuth ==
  /\ surface = "auth"
  /\ video_url = <<>>
  /\ env_key = "None"
  /\ pc = "Start"
  /\ result = NoResult
  /\ Idle

NextAuth == exchange_code_for_tokens

SpecAuth == InitAuth /\ [][NextAuth]_vars

(* Properties of the user table *)

\* the last completed call was made for an email that had a row already
EmailExisted ==
  /\ returned.id # 0
  /\ \E i \in DOMAIN returned.before :
       returned.before[i].email = returned.call.email

\* C12: the user table never holds two rows with one email; a completed
\* call for an email that had a row leaves the number of rows unchanged,
\* returns the id of that row, has set its token and refresh_token to the
\* new credentials, and leaves every other row as it was.
C12_OneUserPerEmail ==
  surface = "auth" =>
    /\ \A i, j \in DOMAIN users :
         (users[i].email = users[j].email \/ users[i].id = users[j].id) => i = j
    /\ EmailExisted =>
         /\ DOMAIN users = DOMAIN returned.before
         /\ \A i \in DOMAIN users :
              IF returned.before[i].email = returned.call.email
                THEN /\ returned.id = returned.before[i].id
                     /\ users[i].id = returned.before[i].id
                     /\ users[i].email = returned.call.email
                     /\ users[i].token = returned.call.token
                     /\ users[i].refresh_token = returned.call.refresh_token
                ELSE users[i] = returned.before[i]

\* with two users in the table, a call for the first one's email replaced
\* its token and dropped its refresh token
C12_Witness ==
  /\ surface = "auth"
  /\ EmailExisted
  /\ Len(users) = 2
  /\ returned.id = 1
  /\ returned.before[1].token = "t1"
  /\ returned.before[1].refresh_token = "r1"
  /\ users[1].token = "t2"
  /\ users[1].refresh_token = NoneValue

============================================================================
